---- MODULE Spec2Model ----
(***************************************************************************)
(* A model of grammarbot-rs (src/src/lib.rs): the Client, its builder      *)
(* setters, check(), the URL parsing and joining it relies on, the HTTP    *)
(* exchange and the deserialization of the body into a Response.           *)
(*                                                                         *)
(* Strings that are parsed as URLs are sequences of tokens: a token is     *)
(* either one of the delimiters  :  /  ?  #  =  &  or a maximal run of      *)
(* other characters.  "http://h/api" is <<"http",":","/","/","h","/",      *)
(* "api">>.                                                                *)
(***************************************************************************)
EXTENDS Integers, Sequences, FiniteSets, TLC

VARIABLES client, last, net

vars == <<client, last, net>>

(***************************************************************************)
(* Bounds of the model.                                                    *)
(***************************************************************************)
\* the longest `matches` array the service's body holds
MaxMatches == 2
\* the number of requests put on the wire in one behaviour
MaxRequests == 2

(***************************************************************************)
(* Sequence helpers.                                                       *)
(***************************************************************************)
Delims == {":", "/", "?", "#", "=", "&"}

Drop(s, n) == SubSeq(s, n + 1, Len(s))

Take(s, n) == SubSeq(s, 1, n)

\* index of the first token of s that is in set D, Len(s) + 1 when none is
RECURSIVE FirstIn(_, _, _)
FirstIn(s, D, i) ==
    IF i > Len(s) THEN Len(s) + 1
    ELSE IF s[i] \in D THEN i
    ELSE FirstIn(s, D, i + 1)

RECURSIVE SkipSlashes(_)
SkipSlashes(s) ==
    IF s # <<>> /\ s[1] = "/" THEN SkipSlashes(Tail(s)) ELSE s

(***************************************************************************)
(* reqwest::Url (the url crate).                                           *)
(***************************************************************************)
SpecialSchemes == {"http", "https", "ws", "wss", "ftp"}

NoUrl ==
    [scheme |-> "", host |-> "", port |-> "", path |-> <<>>, query |-> <<>>,
     cannot_be_a_base |-> FALSE]

UrlErr(e) == [ok |-> FALSE, url |-> NoUrl, err |-> e]

UrlOk(u) == [ok |-> TRUE, url |-> u, err |-> ""]

\* the segments of a path that starts with "/": "/" is <<"">>, "/a/" is <<"a", "">>
RECURSIVE PathSegments(_)
PathSegments(s) ==
    IF s = <<>> THEN <<>>
    ELSE IF Len(s) = 1 THEN <<"">>
    ELSE IF s[2] = "/" THEN <<"">> \o PathSegments(Tail(s))
    ELSE <<s[2]>> \o PathSegments(Drop(s, 2))

\* the name=value pairs of a query string (the tokens after "?")
RECURSIVE QueryPairs(_)
QueryPairs(s) ==
    IF s = <<>> THEN <<>>
    ELSE IF s[1] = "&" THEN QueryPairs(Tail(s))
    ELSE IF Len(s) >= 3 /\ s[2] = "=" /\ s[3] \notin Delims
         THEN <<(<<s[1], s[3]>>)>> \o QueryPairs(Drop(s, 3))
    ELSE IF Len(s) >= 2 /\ s[2] = "="
         THEN <<(<<s[1], "">>)>> \o QueryPairs(Drop(s, 2))
    ELSE <<(<<s[1], "">>)>> \o QueryPairs(Tail(s))

\* path and query of the tokens that follow the authority; the fragment is
\* not sent and is left out
PathOf(s) == Take(s, FirstIn(s, {"?", "#"}, 1) - 1)

QueryOf(s) ==
    LET q == FirstIn(s, {"?", "#"}, 1)
        rest == Drop(s, q)
    IN IF q <= Len(s) /\ s[q] = "?"
       THEN QueryPairs(Take(rest, FirstIn(rest, {"#"}, 1) - 1))
       ELSE <<>>

\* host, optional port, then path and query
ParseAuthority(scheme, s) ==
    IF s = <<>> \/ s[1] \in Delims
    THEN IF scheme \in SpecialSchemes
         THEN UrlErr("EmptyHost")
         ELSE UrlOk([scheme |-> scheme, host |-> "", port |-> "",
                     path |-> PathSegments(PathOf(s)), query |-> QueryOf(s),
                     cannot_be_a_base |-> FALSE])
    ELSE LET hasPort == Len(s) >= 2 /\ s[2] = ":"
             after == IF hasPort THEN Drop(s, 3) ELSE Tail(s)
             p == PathOf(after)
         IN IF hasPort /\ (Len(s) < 3 \/ s[3] \in Delims)
            THEN UrlErr("InvalidPort")
            ELSE UrlOk([scheme |-> scheme, host |-> s[1],
                        port |-> IF hasPort THEN s[3] ELSE "",
                        path |-> IF p = <<>> /\ scheme \in SpecialSchemes
                                 THEN <<"">> ELSE PathSegments(p),
                        query |-> QueryOf(after),
                        cannot_be_a_base |-> FALSE])

\* Url::parse: an absolute URL starts with a scheme and ":"
UrlParse(s) ==
    IF Len(s) < 2 \/ s[1] \in Delims \/ s[2] # ":"
    THEN UrlErr("RelativeUrlWithoutBase")
    ELSE LET scheme == s[1]
             rest == Drop(s, 2)
         IN IF scheme \in SpecialSchemes
            THEN ParseAuthority(scheme, SkipSlashes(rest))
            ELSE IF Len(rest) >= 2 /\ rest[1] = "/" /\ rest[2] = "/"
            THEN ParseAuthority(scheme, Drop(rest, 2))
            ELSE IF rest # <<>> /\ rest[1] = "/"
            THEN UrlOk([scheme |-> scheme, host |-> "", port |-> "",
                        path |-> PathSegments(PathOf(rest)),
                        query |-> QueryOf(rest), cannot_be_a_base |-> FALSE])
            ELSE UrlOk([scheme |-> scheme, host |-> "", port |-> "",
                        path |-> PathOf(rest), query |-> QueryOf(rest),
                        cannot_be_a_base |-> TRUE])

\* a faulty join: a base that cannot be a base is taken as one all the same
UrlJoinAnyBase(base, ref) ==
    IF ref # <<>> /\ ref[1] = "/"
    THEN UrlOk([base EXCEPT !.path = PathSegments(PathOf(ref)),
                            !.query = QueryOf(ref),
                            !.cannot_be_a_base = FALSE])
    ELSE UrlOk(base)

\* Url::join: the reference resolved against the base
UrlJoin(base, ref) ==
    IF Len(ref) >= 2 /\ ref[1] \notin Delims /\ ref[2] = ":"
    THEN UrlParse(ref)
    ELSE IF base.cannot_be_a_base
    THEN UrlErr("RelativeUrlWithCannotBeABaseBase")
    ELSE IF Len(ref) >= 2 /\ ref[1] = "/" /\ ref[2] = "/"
    THEN UrlParse(<<base.scheme, ":">> \o ref)
    ELSE IF ref # <<>> /\ ref[1] = "/"
    THEN UrlOk([base EXCEPT !.path = PathSegments(PathOf(ref)),
                            !.query = QueryOf(ref)])
    ELSE IF ref = <<>>
    THEN UrlOk(base)
    ELSE LET p == PathOf(ref)
             dir == IF base.path = <<>> THEN <<>>
                    ELSE Take(base.path, Len(base.path) - 1)
         IN UrlOk([base EXCEPT
                     !.path = IF p = <<>> THEN base.path
                              ELSE dir \o PathSegments(<<"/">> \o p),
                     !.query = QueryOf(ref)])

(***************************************************************************)
(* JSON documents.  A body is a JSON value, or text that is not JSON.      *)
(***************************************************************************)
JStr(x) == [t |-> "str", s |-> x]

JNum(x) == [t |-> "num", n |-> x]

JBool(x) == [t |-> "bool", b |-> x]

JArr(x) == [t |-> "arr", a |-> x]

JObj(x) == [t |-> "obj", o |-> x]

JNull == [t |-> "null"]

JSyntaxError == [t |-> "syntax_error"]

\* object x without its member k
Without(x, k) == JObj([f \in DOMAIN x.o \ {k} |-> x.o[f]])

\* object x with member k set to v
With(x, k, v) == JObj([f \in DOMAIN x.o \cup {k} |-> IF f = k THEN v ELSE x.o[f]])

(***************************************************************************)
(* Deserialization (serde's derive(Deserialize), rename_all = camelCase):  *)
(* every member of a struct is required, members the struct does not name  *)
(* are ignored, and a number must fit the field's integer type.            *)
(***************************************************************************)
U8Max == 255

DeOk(x) == [ok |-> TRUE, v |-> x]

DeErr == [ok |-> FALSE, v |-> <<>>]

DeString(j) == IF j.t = "str" THEN DeOk(j.s) ELSE DeErr

DeBool(j) == IF j.t = "bool" THEN DeOk(j.b) ELSE DeErr

DeU8(j) == IF j.t = "num" /\ j.n >= 0 /\ j.n <= U8Max THEN DeOk(j.n) ELSE DeErr

\* u32: the numbers of this model are all below 2^32 (they are at most
\* 2^31 - 1), so a number fails to be a u32 only by being negative
DeU32(j) == IF j.t = "num" /\ j.n >= 0 THEN DeOk(j.n) ELSE DeErr

\* member k of object j; a member the object lacks deserializes as no type
\* does, which is serde's "missing field" error
JMissing == [t |-> "missing"]

Member(j, k) == IF k \in DOMAIN j.o THEN j.o[k] ELSE JMissing

DeSoftware(j) ==
    IF j.t # "obj" THEN DeErr
    ELSE LET name == DeString(Member(j, "name"))
             version == DeString(Member(j, "version"))
             api_version == DeU8(Member(j, "apiVersion"))
             premium == DeBool(Member(j, "premium"))
             premium_hint == DeString(Member(j, "premiumHint"))
             status == DeString(Member(j, "status"))
         IN IF name.ok /\ version.ok /\ api_version.ok /\ premium.ok
               /\ premium_hint.ok /\ status.ok
            THEN DeOk([name |-> name.v, version |-> version.v,
                       api_version |-> api_version.v, premium |-> premium.v,
                       premium_hint |-> premium_hint.v, status |-> status.v])
            ELSE DeErr

DeWarnings(j) ==
    IF j.t # "obj" THEN DeErr
    ELSE LET incomplete_results == DeBool(Member(j, "incompleteResults"))
         IN IF incomplete_results.ok
            THEN DeOk([incomplete_results |-> incomplete_results.v])
            ELSE DeErr

DeDetectedLanguage(j) ==
    IF j.t # "obj" THEN DeErr
    ELSE LET name == DeString(Member(j, "name"))
             code == DeString(Member(j, "code"))
         IN IF name.ok /\ code.ok
            THEN DeOk([name |-> name.v, code |-> code.v])
            ELSE DeErr

DeLanguage(j) ==
    IF j.t # "obj" THEN DeErr
    ELSE LET name == DeString(Member(j, "name"))
             code == DeString(Member(j, "code"))
             detected_language == DeDetectedLanguage(Member(j, "detectedLanguage"))
         IN IF name.ok /\ code.ok /\ detected_language.ok
            THEN DeOk([name |-> name.v, code |-> code.v,
                       detected_language |-> detected_language.v])
            ELSE DeErr

DeReplacement(j) ==
    IF j.t # "obj" THEN DeErr
    ELSE LET value == DeString(Member(j, "value"))
         IN IF value.ok THEN DeOk([value |-> value.v]) ELSE DeErr

\* Vec<Replacement>: every element, in the array's order
DeReplacements(j) ==
    IF j.t = "arr" /\ \A i \in 1..Len(j.a) : DeReplacement(j.a[i]).ok
    THEN DeOk([i \in 1..Len(j.a) |-> DeReplacement(j.a[i]).v])
    ELSE DeErr

DeContext(j) ==
    IF j.t # "obj" THEN DeErr
    ELSE LET text == DeString(Member(j, "text"))
             offset == DeU32(Member(j, "offset"))
             length == DeU32(Member(j, "length"))
         IN IF text.ok /\ offset.ok /\ length.ok
            THEN DeOk([text |-> text.v, offset |-> offset.v, length |-> length.v])
            ELSE DeErr

DeType(j) ==
    IF j.t # "obj" THEN DeErr
    ELSE LET type_name == DeString(Member(j, "typeName"))
         IN IF type_name.ok THEN DeOk([type_name |-> type_name.v]) ELSE DeErr

DeCategory(j) ==
    IF j.t # "obj" THEN DeErr
    ELSE LET id == DeString(Member(j, "id"))
             name == DeString(Member(j, "name"))
         IN IF id.ok /\ name.ok THEN DeOk([id |-> id.v, name |-> name.v]) ELSE DeErr

DeRule(j) ==
    IF j.t # "obj" THEN DeErr
    ELSE LET id == DeString(Member(j, "id"))
             description == DeString(Member(j, "description"))
             issue_type == DeString(Member(j, "issueType"))
             category == DeCategory(Member(j, "category"))
         IN IF id.ok /\ description.ok /\ issue_type.ok /\ category.ok
            THEN DeOk([id |-> id.v, description |-> description.v,
                       issue_type |-> issue_type.v, category |-> category.v])
            ELSE DeErr

\* a faulty Match: `rule` made optional (a #[serde(default)] on the field)
DeMatchDefaultRule(j) ==
    IF j.t # "obj" THEN DeErr
    ELSE LET message == DeString(Member(j, "message"))
             short_message == DeString(Member(j, "shortMessage"))
             replacements == DeReplacements(Member(j, "replacements"))
             offset == DeU32(Member(j, "offset"))
             length == DeU32(Member(j, "length"))
             context == DeContext(Member(j, "context"))
             sentence == DeString(Member(j, "sentence"))
             type == DeType(Member(j, "type"))
             rule == DeRule(Member(j, "rule"))
         IN IF message.ok /\ short_message.ok /\ replacements.ok /\ offset.ok
               /\ length.ok /\ context.ok /\ sentence.ok /\ type.ok
            THEN DeOk([message |-> message.v, short_message |-> short_message.v,
                       replacements |-> replacements.v, offset |-> offset.v,
                       length |-> length.v, context |-> context.v,
                       sentence |-> sentence.v, type |-> type.v, rule |-> rule.v])
            ELSE DeErr

DeMatch(j) ==
    IF j.t # "obj" THEN DeErr
    ELSE LET message == DeString(Member(j, "message"))
             short_message == DeString(Member(j, "shortMessage"))
             replacements == DeReplacements(Member(j, "replacements"))
             offset == DeU32(Member(j, "offset"))
             length == DeU32(Member(j, "length"))
             context == DeContext(Member(j, "context"))
             sentence == DeString(Member(j, "sentence"))
             type == DeType(Member(j, "type"))
             rule == DeRule(Member(j, "rule"))
         IN IF message.ok /\ short_message.ok /\ replacements.ok /\ offset.ok
               /\ length.ok /\ context.ok /\ sentence.ok /\ type.ok /\ rule.ok
            THEN DeOk([message |-> message.v, short_message |-> short_message.v,
                       replacements |-> replacements.v, offset |-> offset.v,
                       length |-> length.v, context |-> context.v,
                       sentence |-> sentence.v, type |-> type.v, rule |-> rule.v])
            ELSE DeErr

\* a faulty Vec<Match>: the elements pushed to the front, so in reverse order
DeMatchesReversed(j) ==
    IF j.t = "arr" /\ \A i \in 1..Len(j.a) : DeMatch(j.a[i]).ok
    THEN DeOk([i \in 1..Len(j.a) |-> DeMatch(j.a[Len(j.a) + 1 - i]).v])
    ELSE DeErr

\* Vec<Match>: every element, in the array's order
DeMatches(j) ==
    IF j.t = "arr" /\ \A i \in 1..Len(j.a) : DeMatch(j.a[i]).ok
    THEN DeOk([i \in 1..Len(j.a) |-> DeMatch(j.a[i]).v])
    ELSE DeErr

DeResponse(j) ==
    IF j.t # "obj" THEN DeErr
    ELSE LET software == DeSoftware(Member(j, "software"))
             warnings == DeWarnings(Member(j, "warnings"))
             language == DeLanguage(Member(j, "language"))
             matches == DeMatches(Member(j, "matches"))
         IN IF software.ok /\ warnings.ok /\ language.ok /\ matches.ok
            THEN DeOk([software |-> software.v, warnings |-> warnings.v,
                       language |-> language.v, matches |-> matches.v])
            ELSE DeErr

(***************************************************************************)
(* The HTTP exchange: what the transport and the service do with a request *)
(* that was sent.  send() fails when no response arrives; otherwise it     *)
(* returns the response whatever its status is, and the body is read       *)
(* afterwards, by json().                                                  *)
(***************************************************************************)
SendError == [kind |-> "send_error", status |-> 0, body_read_ok |-> FALSE, body |-> JNull]

HttpResponse(status, body_read_ok, body) ==
    [kind |-> "response", status |-> status, body_read_ok |-> body_read_ok,
     body |-> body]

IsSuccess(status) == status >= 200 /\ status <= 299

\* reqwest::Response::json: the body is read to its end, then parsed; a body
\* that cannot be read, is not JSON or does not fit Response is an error
ResponseJson(resp) ==
    IF ~resp.body_read_ok \/ resp.body.t = "syntax_error"
    THEN DeErr
    ELSE DeResponse(resp.body)

(***************************************************************************)
(* Result<T, Error>.  `value` holds the Response of a successful check.    *)
(***************************************************************************)
Ok(value) == [kind |-> "Ok", err |-> "", source |-> "", value |-> value]

Err(variant, source) == [kind |-> "Err", err |-> variant, source |-> source, value |-> <<>>]

(***************************************************************************)
(* Client.  The transport handle (the `client` field) holds no state the   *)
(* library reads and is left out.                                          *)
(***************************************************************************)
DefaultBase == <<"http", ":", "/", "/", "api.grammarbot.io">>

CheckPath == <<"/", "v2", "/", "check">>

ClientNew(api_key) ==
    [api_key |-> api_key, language |-> "en-US", base |-> UrlParse(DefaultBase).url]

ClientApiKey(self, api_key) == [self EXCEPT !.api_key = api_key]

ClientLanguage(self, language) == [self EXCEPT !.language = language]

\* a faulty base(): self.base assigned before the parse result is examined
ClientBaseAssignFirst(self, base) ==
    LET p == UrlParse(base)
    IN [self |-> [self EXCEPT !.base = p.url],
        result |-> IF p.ok THEN Ok(<<>>) ELSE Err("InvalidUrl", p.err)]

\* the assignment to self.base happens only after the `?`
ClientBase(self, base) ==
    LET p == UrlParse(base)
    IN IF p.ok
       THEN [self |-> [self EXCEPT !.base = p.url], result |-> Ok(<<>>)]
       ELSE [self |-> self, result |-> Err("InvalidUrl", p.err)]

\* RequestBuilder::query appends the pairs to the query of the URL
WithQuery(url, query) == [url EXCEPT !.query = @ \o query]

\* a faulty request(): the path joined to the default base, not to self.base
ClientRequestDefaultBase(self, method, path, query, exchange) ==
    LET j == UrlJoin(UrlParse(DefaultBase).url, path)
    IN IF ~j.ok
       THEN [result |-> Err("InvalidUrl", j.err), sent |-> <<>>, response |-> <<>>]
       ELSE LET req == [method |-> method, url |-> WithQuery(j.url, query)]
            IN IF exchange.kind = "send_error"
               THEN [result |-> Err("RequestFailed", "send"), sent |-> <<req>>,
                     response |-> <<>>]
               ELSE [result |-> Ok(<<>>), sent |-> <<req>>, response |-> <<exchange>>]

\* a faulty request(): a request that failed to send is sent a second time
ClientRequestRetry(self, method, path, query, exchange) ==
    LET j == UrlJoin(self.base, path)
    IN IF ~j.ok
       THEN [result |-> Err("InvalidUrl", j.err), sent |-> <<>>, response |-> <<>>]
       ELSE LET req == [method |-> method, url |-> WithQuery(j.url, query)]
            IN IF exchange.kind = "send_error"
               THEN [result |-> Err("RequestFailed", "send"), sent |-> <<req, req>>,
                     response |-> <<>>]
               ELSE [result |-> Ok(<<>>), sent |-> <<req>>, response |-> <<exchange>>]

\* sent: the requests put on the wire; response: what send() returned
ClientRequest(self, method, path, query, exchange) ==
    LET j == UrlJoin(self.base, path)
    IN IF ~j.ok
       THEN [result |-> Err("InvalidUrl", j.err), sent |-> <<>>, response |-> <<>>]
       ELSE LET req == [method |-> method, url |-> WithQuery(j.url, query)]
            IN IF exchange.kind = "send_error"
               THEN [result |-> Err("RequestFailed", "send"), sent |-> <<req>>,
                     response |-> <<>>]
               ELSE [result |-> Ok(<<>>), sent |-> <<req>>, response |-> <<exchange>>]

\* a faulty check(): the stored api key and language sent along with the text
ClientCheckSendsKey(self, text, exchange) ==
    LET r == ClientRequest(self, "GET", CheckPath,
                           <<(<<"text", text>>), (<<"api_key", self.api_key>>),
                             (<<"language", self.language>>)>>, exchange)
    IN IF r.result.kind = "Err"
       THEN [result |-> r.result, sent |-> r.sent]
       ELSE LET js == ResponseJson(r.response[1])
            IN [result |-> IF js.ok THEN Ok(<<js.v>>) ELSE Err("InvalidJSON", "json"),
                sent |-> r.sent]

\* `?` returns the error of request(); json()'s error becomes InvalidJSON
ClientCheck(self, text, exchange) ==
    LET r == ClientRequest(self, "GET", CheckPath, <<(<<"text", text>>)>>, exchange)
    IN IF r.result.kind = "Err"
       THEN [result |-> r.result, sent |-> r.sent]
       ELSE LET js == ResponseJson(r.response[1])
            IN [result |-> IF js.ok THEN Ok(<<js.v>>) ELSE Err("InvalidJSON", "json"),
                sent |-> r.sent]

(***************************************************************************)
(* The inputs of the model.                                                *)
(***************************************************************************)
ApiKeys == {"your_api_key", ""}

Languages == {"en-UK", ""}

Texts == {"I can't remember how to go their.", ""}

BaseStrings ==
    { <<>>,
      <<"api.grammarbot.io">>,
      <<"http", ":", "/", "/">>,
      DefaultBase,
      <<"http", ":", "/", "/", "pro.grammarbot.io">>,
      <<"http", ":", "/", "/", "localhost", ":", "8080", "/", "api", "?", "key", "=", "k">>,
      <<"mailto", ":", "api@grammarbot.io">> }

Statuses == {200, 500}

WireMatch(offset, length) ==
    JObj([message |-> JStr("Statistics suggests that 'there' might be the correct word here."),
          shortMessage |-> JStr(""),
          replacements |-> JArr(<<JObj([value |-> JStr("there")])>>),
          offset |-> JNum(offset),
          length |-> JNum(length),
          context |-> JObj([text |-> JStr("I can't remember how to go their."),
                            offset |-> JNum(27), length |-> JNum(5)]),
          sentence |-> JStr("I can't remember how to go their."),
          type |-> JObj([typeName |-> JStr("Other")]),
          rule |-> JObj([id |-> JStr("CONFUSION_RULE"),
                         description |-> JStr("Statistically detect wrong use of words"),
                         issueType |-> JStr("non-conformance"),
                         category |-> JObj([id |-> JStr("TYPOS"),
                                            name |-> JStr("Possible Typo")])])])

\* the matches the service flags: the misused word of the test's sentence, and
\* one that lies outside any text of the model
WireMatches ==
    { WireMatch(27, 5),
      WireMatch(1000, 7) }

WireDocument(matches) ==
    JObj([software |-> JObj([name |-> JStr("GrammarBot"), version |-> JStr("4.3"),
                             apiVersion |-> JNum(1), premium |-> JBool(FALSE),
                             premiumHint |-> JStr(""), status |-> JStr("")]),
          warnings |-> JObj([incompleteResults |-> JBool(FALSE)]),
          language |-> JObj([name |-> JStr("English (US)"), code |-> JStr("en-US"),
                             detectedLanguage |-> JObj([name |-> JStr("English (US)"),
                                                        code |-> JStr("en-US")])]),
          matches |-> matches])

MatchArrays == UNION { [1..n -> WireMatches] : n \in 0..MaxMatches }

\* the well-formed documents, and bodies that do not fit the schema: text
\* that is not JSON, a value of the wrong type, a missing member, a number out
\* of range; and one with a member the schema does not name
Bodies ==
    { WireDocument(JArr(ms)) : ms \in MatchArrays }
    \cup { JSyntaxError,
           JArr(<<>>),
           JObj([error |-> JStr("invalid api key")]),
           Without(WireDocument(JArr(<<>>)), "software"),
           Without(WireDocument(JArr(<<>>)), "matches"),
           WireDocument(JNull),
           WireDocument(JArr(<<Without(WireMatch(27, 5), "rule")>>)),
           WireDocument(JArr(<<WireMatch(27, 5), Without(WireMatch(1000, 7), "rule")>>)),
           WireDocument(JArr(<<With(WireMatch(27, 5), "offset", JStr("27"))>>)),
           WireDocument(JArr(<<WireMatch(27, -1)>>)),
           With(WireDocument(JArr(<<WireMatch(27, 5)>>)), "extra", JNull),
           With(WireDocument(JArr(<<>>)), "software",
                With(WireDocument(JArr(<<>>)).o.software, "apiVersion", JNum(256))) }

Exchanges ==
    { SendError }
    \cup { HttpResponse(st, FALSE, JNull) : st \in Statuses }
    \cup { HttpResponse(st, TRUE, b) : st \in Statuses, b \in Bodies }

(***************************************************************************)
(* The state: the client, the most recent call with what it returned and   *)
(* what it put on the wire, and the number of requests sent so far.        *)
(***************************************************************************)
Call(op, arg, result, sent, exchange) ==
    [op |-> op, arg |-> arg, result |-> result, sent |-> sent, exchange |-> exchange]

Init ==
    \E k \in ApiKeys :
        /\ client = ClientNew(k)
        /\ last = Call("new", <<k>>, Ok(<<>>), <<>>, <<>>)
        /\ net = 0

ApiKey(k) ==
    /\ client' = ClientApiKey(client, k)
    /\ last' = Call("api_key", <<k>>, Ok(<<>>), <<>>, <<>>)
    /\ UNCHANGED net

Language(l) ==
    /\ client' = ClientLanguage(client, l)
    /\ last' = Call("language", <<l>>, Ok(<<>>), <<>>, <<>>)
    /\ UNCHANGED net

Base(s) ==
    LET r == ClientBase(client, s)
    IN /\ client' = r.self
       /\ last' = Call("base", s, r.result, <<>>, <<>>)
       /\ UNCHANGED net

Check(text, exchange) ==
    \E r \in {ClientCheck(client, text, exchange)} :
       /\ net + Len(r.sent) <= MaxRequests
       /\ last' = Call("check", <<text>>, r.result, r.sent,
                       IF r.sent = <<>> THEN <<>> ELSE <<exchange>>)
       /\ net' = net + Len(r.sent)
       /\ UNCHANGED client

Next ==
    \/ \E k \in ApiKeys : ApiKey(k)
    \/ \E l \in Languages : Language(l)
    \/ \E s \in BaseStrings : Base(s)
    \/ \E text \in Texts, exchange \in Exchanges : Check(text, exchange)

Spec == Init /\ [][Next]_vars

(***************************************************************************)
(* The Response schema, stated member by member from the structs: what a   *)
(* body must hold to conform.                                              *)
(***************************************************************************)
HasMembers(j, names, type) ==
    /\ j.t = "obj"
    /\ \A n \in names : n \in DOMAIN j.o /\ j.o[n].t = type

InRange(j, k, max) == j.o[k].n >= 0 /\ j.o[k].n <= max

NonNegative(j, k) == j.o[k].n >= 0

ConformsMatch(j) ==
    /\ HasMembers(j, {"message", "shortMessage", "sentence"}, "str")
    /\ HasMembers(j, {"offset", "length"}, "num")
    /\ NonNegative(j, "offset") /\ NonNegative(j, "length")
    /\ HasMembers(j, {"replacements"}, "arr")
    /\ \A i \in 1..Len(j.o.replacements.a) :
          HasMembers(j.o.replacements.a[i], {"value"}, "str")
    /\ HasMembers(j, {"context", "type", "rule"}, "obj")
    /\ HasMembers(j.o.context, {"text"}, "str")
    /\ HasMembers(j.o.context, {"offset", "length"}, "num")
    /\ NonNegative(j.o.context, "offset") /\ NonNegative(j.o.context, "length")
    /\ HasMembers(j.o.type, {"typeName"}, "str")
    /\ HasMembers(j.o.rule, {"id", "description", "issueType"}, "str")
    /\ HasMembers(j.o.rule, {"category"}, "obj")
    /\ HasMembers(j.o.rule.o.category, {"id", "name"}, "str")

ConformsToSchema(j) ==
    /\ HasMembers(j, {"software", "warnings", "language"}, "obj")
    /\ HasMembers(j, {"matches"}, "arr")
    /\ HasMembers(j.o.software, {"name", "version", "premiumHint", "status"}, "str")
    /\ HasMembers(j.o.software, {"premium"}, "bool")
    /\ HasMembers(j.o.software, {"apiVersion"}, "num")
    /\ InRange(j.o.software, "apiVersion", U8Max)
    /\ HasMembers(j.o.warnings, {"incompleteResults"}, "bool")
    /\ HasMembers(j.o.language, {"name", "code"}, "str")
    /\ HasMembers(j.o.language, {"detectedLanguage"}, "obj")
    /\ HasMembers(j.o.language.o.detectedLanguage, {"name", "code"}, "str")
    /\ \A i \in 1..Len(j.o.matches.a) : ConformsMatch(j.o.matches.a[i])

\* a Response with every field of every struct it owns
IsCompleteResponse(r) ==
    /\ DOMAIN r = {"software", "warnings", "language", "matches"}
    /\ DOMAIN r.software =
          {"name", "version", "api_version", "premium", "premium_hint", "status"}
    /\ DOMAIN r.warnings = {"incomplete_results"}
    /\ DOMAIN r.language = {"name", "code", "detected_language"}
    /\ \A i \in 1..Len(r.matches) :
          /\ DOMAIN r.matches[i] =
                {"message", "short_message", "replacements", "offset", "length",
                 "context", "sentence", "type", "rule"}
          /\ DOMAIN r.matches[i].context = {"text", "offset", "length"}
          /\ DOMAIN r.matches[i].type = {"type_name"}
          /\ DOMAIN r.matches[i].rule = {"id", "description", "issue_type", "category"}
          /\ DOMAIN r.matches[i].rule.category = {"id", "name"}

(***************************************************************************)
(* Properties.                                                             *)
(***************************************************************************)
IsErr(result, variant) ==
    result.kind = "Err" /\ result.err = variant /\ result.value = <<>>

\* the string has no scheme: it is empty, or no ":" follows a first word
NoScheme(s) == Len(s) < 2 \/ s[1] \in Delims \/ s[2] # ":"

\* the request goes to the host the base names
SameOrigin(url, base) ==
    url.scheme = base.scheme /\ url.host = base.host /\ url.port = base.port

\* `base` followed by the path: the segments appended to those of the base
\* (a base's trailing "/" is not doubled)
FollowedBy(base, segments) ==
    LET own == IF base.path # <<>> /\ base.path[Len(base.path)] = ""
               THEN Take(base.path, Len(base.path) - 1)
               ELSE base.path
    IN [scheme |-> base.scheme, host |-> base.host, port |-> base.port,
        path |-> own \o segments]

Located(url) ==
    [scheme |-> url.scheme, host |-> url.host, port |-> url.port, path |-> url.path]

\* C1: base() with a string that is not an absolute URL (the empty string, a
\* string with no scheme, any string the parser rejects) returns InvalidUrl and
\* leaves the client's base, api key and language as they were before the call.
C1_InvalidBaseKeepsClient ==
    [][(last'.op = "base" /\ (NoScheme(last'.arg) \/ ~UrlParse(last'.arg).ok))
         => (IsErr(last'.result, "InvalidUrl") /\ client' = client)]_vars

C1_Witness ==
    /\ last.op = "base" /\ last.arg = <<"api.grammarbot.io">>
    /\ IsErr(last.result, "InvalidUrl")
    /\ client.base.host = "pro.grammarbot.io"
    /\ client.api_key = "" /\ client.language = "en-UK"

\* C2: the request of check(text) carries exactly one query parameter,
\* text=<text>, and is the request a client with the same base and any other
\* api key and language sends for that text.
C2_OnlyTextIsSent ==
    (last.op = "check" /\ last.sent # <<>>) =>
        /\ last.sent[1].url.query = <<(<<"text", last.arg[1]>>)>>
        /\ \A k \in ApiKeys, l \in Languages \cup {"en-US"} :
              ClientCheck([client EXCEPT !.api_key = k, !.language = l],
                          last.arg[1], last.exchange[1]).sent = last.sent

C2_Witness ==
    /\ last.op = "check" /\ last.sent # <<>>
    /\ last.arg = <<"I can't remember how to go their.">>
    /\ client.api_key = "your_api_key" /\ client.language = "en-UK"
    /\ client.base.query # <<>>

\* C3: for every base the client can hold, a base with a path of its own
\* included, the request of check is a GET of <base>/v2/check: the stored base
\* followed by /v2/check.
C3_UrlIsBaseFollowedByPath ==
    (last.op = "check" /\ last.sent # <<>>) =>
        /\ last.sent[1].method = "GET"
        /\ Located(last.sent[1].url) = FollowedBy(client.base, <<"v2", "check">>)

\* C4: the base changes only in a base() call that succeeds, to the URL given;
\* every request of check goes to the base stored at that time, whatever
\* check, api_key, language and failed base calls came in between.
C4_CheckTargetsLastSetBase ==
    [][/\ (client'.base # client.base) =>
             (last'.op = "base" /\ last'.result.kind = "Ok")
       /\ (last'.op = "base" /\ last'.result.kind = "Ok") =>
             (~NoScheme(last'.arg) /\ client'.base = UrlParse(last'.arg).url)
       /\ (last'.op = "check" /\ last'.sent # <<>>) =>
             (client' = client /\ SameOrigin(last'.sent[1].url, client.base))]_vars

C4_Witness ==
    /\ last.op = "check" /\ last.sent # <<>> /\ net >= 2
    /\ last.sent[1].url.host = "pro.grammarbot.io"
    /\ client.base.host = "pro.grammarbot.io"

\* what the transport can fail at: no response arrives, or the body breaks off
TransportFailed(exchange) ==
    exchange.kind = "send_error" \/ ~exchange.body_read_ok

\* C5: when the transport cannot complete the exchange, check returns
\* RequestFailed and no Response, never InvalidJSON or InvalidUrl.
C5_TransportFailureIsRequestFailed ==
    (last.op = "check" /\ last.exchange # <<>> /\ TransportFailed(last.exchange[1]))
        => IsErr(last.result, "RequestFailed")

\* C6: when the service answers with a non-success status (the answer received
\* in full), check returns RequestFailed, whatever the body is.
C6_ErrorStatusIsRequestFailed ==
    (/\ last.op = "check" /\ last.exchange # <<>>
     /\ last.exchange[1].kind = "response"
     /\ last.exchange[1].body_read_ok
     /\ ~IsSuccess(last.exchange[1].status))
        => IsErr(last.result, "RequestFailed")

\* C7: when the exchange completes and the body does not conform to the
\* Response schema, check returns InvalidJSON; what check returns is an error
\* without a value or a complete Response, never a partly built one.
C7_NonConformingBodyIsInvalidJSON ==
    last.op = "check" =>
        /\ (/\ last.exchange # <<>>
            /\ last.exchange[1].kind = "response"
            /\ last.exchange[1].body_read_ok
            /\ ~ConformsToSchema(last.exchange[1].body))
              => IsErr(last.result, "InvalidJSON")
        /\ \/ last.result.kind = "Err" /\ last.result.value = <<>>
           \/ /\ last.result.kind = "Ok" /\ Len(last.result.value) = 1
              /\ IsCompleteResponse(last.result.value[1])

C7_Witness ==
    /\ last.op = "check" /\ last.exchange # <<>>
    /\ last.exchange[1].status = 200
    /\ last.exchange[1].body =
          WireDocument(JArr(<<WireMatch(27, 5), Without(WireMatch(1000, 7), "rule")>>))
    /\ IsErr(last.result, "InvalidJSON")

\* C8: only check puts requests on the wire, at most one a call: api_key,
\* language and base send none, none is sent at construction, and a check
\* whose request fails returns the error after that one request.
C8_OneRequestPerCheck ==
    /\ (last.op = "new" => (net = 0 /\ last.sent = <<>>))
    /\ [][/\ (net' # net) => (last'.op = "check" /\ net' = net + 1)
          /\ (last'.op \in {"api_key", "language", "base"}) =>
                (net' = net /\ last'.sent = <<>>)
          /\ (last'.op = "check") =>
                (Len(last'.sent) <= 1 /\ net' = net + Len(last'.sent))]_vars

C8_Witness ==
    /\ last.op = "check" /\ IsErr(last.result, "RequestFailed")
    /\ Len(last.sent) = 1 /\ net = 1

\* C9: the Response of a successful check holds the matches of the body in the
\* body's order, each with the offset and length the service sent, whether or
\* not they lie within the text.
C9_MatchesAsSent ==
    (last.op = "check" /\ last.result.kind = "Ok") =>
        LET sent == last.exchange[1].body.o.matches.a
            got == last.result.value[1].matches
        IN /\ Len(got) = Len(sent)
           /\ \A i \in 1..Len(sent) :
                 /\ got[i].offset = sent[i].o.offset.n
                 /\ got[i].length = sent[i].o.length.n

C9_Witness ==
    /\ last.op = "check" /\ last.result.kind = "Ok"
    /\ last.arg = <<"I can't remember how to go their.">>
    /\ Len(last.result.value[1].matches) = 2
    /\ last.result.value[1].matches[1].offset = 27
    /\ last.result.value[1].matches[1].length = 5
    /\ last.result.value[1].matches[2].offset = 1000

\* C10: with a base that base() accepted and that cannot be a base for a
\* relative path, check returns InvalidUrl and sends no request.
C10_JoinFailureIsInvalidUrl ==
    [][(last'.op = "check" /\ client.base.cannot_be_a_base)
         => (/\ IsErr(last'.result, "InvalidUrl")
             /\ last'.sent = <<>> /\ last'.exchange = <<>>
             /\ net' = net)]_vars

C10_Witness ==
    /\ last.op = "check" /\ IsErr(last.result, "InvalidUrl")
    /\ client.base.scheme = "mailto" /\ client.base.cannot_be_a_base
    /\ net = 1

====
